---- MODULE Spec2Model ----
(***************************************************************************)
(* A model of the mathmusic generative engine: the scale-degree Chord      *)
(* (normalisation, voicing, nearest tone, equality and hash), the Biases   *)
(* weighted-history sampler, Progression.from_biases, the Part producers   *)
(* (skeleton, chord_background, get_voice) and Part.refine / Part.extend.  *)
(*                                                                         *)
(* Python's % is the floor modulus, which is also the % of Integers.       *)
(* A rhythm string is a sequence of one-character strings.  Durations are  *)
(* counted in 24ths of a quarter-note beat so that every entry of          *)
(* NOTE_LENS (1/8, 1/3, 2/3 included) is an integer.                       *)
(***************************************************************************)
EXTENDS Integers, Sequences, FiniteSets, TLC

VARIABLES
    scene,      \* which part of the library the behaviour exercises
    c_pitches,  \* Chord.pitches of the chord under test (<<>> before __init__)
    c_input,    \* the collection handed to Chord.__init__
    c_call,     \* the last pure call made on the chord, with its result
    g_pc,       \* position inside Chord.get_pitches
    g_args,     \* the arguments of the running get_pitches call
    g_max,      \* get_pitches' local max_pitch (the code narrows it)
    g_res,      \* get_pitches' local res
    g_i,        \* get_pitches' local i
    g_mod,      \* get_pitches' local mod
    b_kind,     \* element type of the sampler's conditions: "int" or "str"
    b_self,     \* Biases.biases of the sampler under test: a list of tables
    b_other,    \* the right operand's tables while __add__ runs
    b_todo,     \* __add__: the rows <<i, c>> of `other` not yet visited
    b_call,     \* the last call made on the sampler, with its outcome
    p_pc,       \* position inside Progression.from_biases
    p_args,     \* from_biases' arguments first, force_end, min_len
    p_res,      \* from_biases' local res
    m_pc,       \* position inside the call that builds or refines a Part
    m_chords,   \* Progression.chords of the progression a Part is built from
    sk,         \* skeleton's locals and arguments
    part,       \* the Part in hand: built by a method, then the receiver of refine
    ref,        \* refine's local ref
    r_loc,      \* refine's counters reps, steps, leaps, note_num, i and end_tonic
    m_call      \* the last call that built or changed a Part, with its arguments

chordVars == <<c_pitches, c_input, c_call, g_pc, g_args, g_max, g_res, g_i, g_mod>>
biasVars == <<b_kind, b_self, b_other, b_todo, b_call>>
progVars == <<p_pc, p_args, p_res>>
partVars == <<m_pc, m_chords, sk, part, ref, r_loc, m_call>>
outsideChord == <<biasVars, progVars, partVars>>
outsideBias == <<chordVars, progVars, partVars>>
outsideProg == <<chordVars, biasVars, partVars>>
outsidePart == <<chordVars, biasVars, progVars>>
vars == <<scene, chordVars, biasVars, progVars, partVars>>

(***************************************************************************)
(* Bounds of the model.                                                    *)
(***************************************************************************)
MaxChordSize == 3   \* pitches handed to Chord.__init__
PitchSpan == 9      \* input pitches range over LowPitch .. LowPitch + PitchSpan
RangeSpan == 9      \* get_pitches: max_pitch - min_pitch ranges over 0 .. RangeSpan
MinSpan == 2        \* get_pitches: min_pitch ranges over LowMin .. LowMin + MinSpan
MaxRes == 8         \* cap on the length of get_pitches' res (a diverging loop)
OctShift == 1       \* octave shifts k range over -OctShift .. OctShift
MaxWeight == 2      \* weights handed to Biases() and add_bias range over 1 .. MaxWeight
MaxHist == 2        \* histories handed to add_bias / get_bias have 0 .. MaxHist elements
MaxSeed == 2        \* from_biases: `first` holds 0 .. MaxSeed chords
MaxMinLen == 5      \* from_biases: min_len ranges over 0 .. MaxMinLen
MaxProgLen == 7     \* cap on the length of from_biases' res (an unbounded loop)
MaxTokens == 3      \* rhythm tokens of a Part handed in by a client: 0 .. MaxTokens
MaxSkelLen == 3     \* cap on the tokens skeleton draws
MaxVoice == 3       \* get_voice: voice ranges over 0 .. MaxVoice
MaxPartLen == 3     \* cap on the rhythm tokens of a Part grown by extend
MaxRun == 7         \* notes of the line of one repeated pitch handed to refine

LowPitch == 0 - 1
LowMin == 0 - 2

Pitches == LowPitch .. (LowPitch + PitchSpan)
PitchSets == {P \in SUBSET Pitches : P # {} /\ Cardinality(P) <= MaxChordSize}

(***************************************************************************)
(* Sequence helpers that stand for Python list operations.                 *)
(***************************************************************************)
Last(s) == s[Len(s)]
Front(s) == SubSeq(s, 1, Len(s) - 1)
Abs(x) == IF x < 0 THEN 0 - x ELSE x
SetMin(S) == CHOOSE x \in S : \A y \in S : x <= y
\* s[i] with Python's indexing: 0-based, a negative i counts from the end
PyAt(s, i) == IF i < 0 THEN s[Len(s) + i + 1] ELSE s[i + 1]

(***************************************************************************)
(* Chord.__init__                                                          *)
(***************************************************************************)
\* sorted(pitches, key=lambda x: (x-root)%7); two pitches of one class are a
\* tie, and either order gives the same list after the reduction below
RECURSIVE SortedByKey(_, _)
SortedByKey(S, root) ==
    IF S = {} THEN <<>>
    ELSE LET m == CHOOSE x \in S : \A y \in S :
                      \/ ((x - root) % 7) < ((y - root) % 7)
                      \/ (((x - root) % 7) = ((y - root) % 7) /\ x <= y)
         IN  <<m>> \o SortedByKey(S \ {m}, root)

\* pitches = set(pitches); root = min(pitches); sort; reduce to the root's octave
ChordInit(P) ==
    LET root == SetMin(P)
        srt == SortedByKey(P, root)
    IN  [k \in 1 .. Len(srt) |-> ((srt[k] - root) % 7) + root]

(***************************************************************************)
(* Chord.scale_intervals, Chord.nearest                                    *)
(***************************************************************************)
ScaleIntervals(ps) == [k \in 1 .. Len(ps) |-> ps[k] - ps[1]]

\* the key of nearest's min(): min(abs(x-mod_out), 7-abs(x-mod_out))
NearKey(x, mod_out) ==
    IF Abs(x - mod_out) <= 7 - Abs(x - mod_out)
    THEN Abs(x - mod_out) ELSE 7 - Abs(x - mod_out)

\* min(seq, key): the first element of the list with the least key
FirstMinBy(s, mod_out) ==
    LET k == CHOOSE j \in 1 .. Len(s) :
                 /\ \A l \in 1 .. Len(s) : NearKey(s[j], mod_out) <= NearKey(s[l], mod_out)
                 /\ \A l \in 1 .. (j - 1) : NearKey(s[l], mod_out) > NearKey(s[j], mod_out)
    IN  s[k]

\* a plausible slip: the wrap-around correction of nearest left out
NearestNoWrap(ps, pitch) ==
    LET mod_out == (pitch - ps[1]) % 7
        mod_in == FirstMinBy(ScaleIntervals(ps), mod_out)
    IN  pitch + (mod_in - mod_out)

Nearest(ps, pitch) ==
    LET mod_out == (pitch - ps[1]) % 7
        mod_in == FirstMinBy(ScaleIntervals(ps), mod_out)
        mod == mod_in - mod_out
    IN  \* abs(mod) > 3.5, on integers
        IF Abs(mod) >= 4 THEN pitch + mod + 7 ELSE pitch + mod

(***************************************************************************)
(* Chord.__eq__, Chord.__hash__                                            *)
(***************************************************************************)
ChordEq(a, b) ==
    IF Len(a) # Len(b) THEN FALSE
    ELSE IF (a[1] % 7) # (b[1] % 7) THEN FALSE
    ELSE \A k \in 2 .. Len(a) : a[k] - a[1] = b[k] - b[1]

\* a plausible slip: the tuple hashed without moving the root to its class
ChordHashRaw(ps) == ps

\* the tuple whose hash __hash__ returns; equal tuples have equal hashes
ChordHash(ps) ==
    LET mod == (ps[1] % 7) - ps[1]
    IN  [k \in 1 .. Len(ps) |-> ps[k] + mod]

(***************************************************************************)
(* Chord.get_pitches, one action per loop iteration                        *)
(***************************************************************************)
\* the pitch of class `root` that is the lowest one >= `from`
ClassAtOrAbove(root, from) == ((((root - 1) % 7) - ((from - 1) % 7)) % 7) + from

Bit0or1(rm) == rm % 4               \* repeat_mode & 3
Bit1(rm) == (rm \div 2) % 2 = 1     \* repeat_mode & 2
Bit2(rm) == (rm \div 4) % 2 = 1     \* repeat_mode & 4

NoCall == [op |-> "none", arg |-> 0, ret |-> 0, other |-> <<>>, eq |-> FALSE]
IdleArgs == [min_pitch |-> 0, max_pitch |-> 0, repeat_mode |-> 0]

GPIdle ==
    /\ g_pc = "idle" /\ g_args = IdleArgs /\ g_max = 0
    /\ g_res = <<>> /\ g_i = 0 /\ g_mod = 0

\* the narrowed max_pitch of lines 184-188
NarrowedMax(ps, mn, mx, rm) ==
    LET mod == ClassAtOrAbove(ps[1], mn) - ps[1]
        top == Last(ps) + mod
        rep == ((ps[1] - Last(ps)) % 7) + Last(ps) + mod
    IN  IF Bit0or1(rm) = 0 THEN (IF mx < top THEN mx ELSE top)
        ELSE IF Bit0or1(rm) = 1 THEN (IF mx < rep THEN mx ELSE rep)
        ELSE mx

\* lines 180-188: bass, mod, res, i and the narrowed max_pitch
GPCall(mn, mx, rm) ==
    /\ LET bass == ClassAtOrAbove(c_pitches[1], mn)
       IN  /\ g_args' = [min_pitch |-> mn, max_pitch |-> mx, repeat_mode |-> rm]
           /\ g_res' = <<bass>>
           /\ g_mod' = bass - c_pitches[1]
           /\ g_i' = 0
           /\ g_max' = NarrowedMax(c_pitches, mn, mx, rm)
    /\ g_pc' = "asc"
    /\ UNCHANGED <<outsideChord, scene, c_pitches, c_input, c_call>>

\* the state after one iteration of the ascending loop, lines 190-198
AscBody(ps, rm, res, i, mod) ==
    LET i1 == i + 1
        n == Len(ps)
    IN  IF Bit0or1(rm) = 0 /\ i1 = n
        THEN [brk |-> TRUE, res |-> res, i |-> i1, mod |-> mod]
        ELSE IF ~Bit1(rm) /\ i1 > n
        THEN [brk |-> TRUE, res |-> res, i |-> i1, mod |-> mod]
        ELSE LET mod1 == IF i1 % n = 0
                         THEN ClassAtOrAbove(ps[1], Last(res)) - ps[1]
                         ELSE mod
             IN  [brk |-> FALSE, res |-> Append(res, ps[(i1 % n) + 1] + mod1),
                  i |-> i1, mod |-> mod1]

\* lines 199-200: drop the last pitch when it overshot max_pitch
Trimmed(res, mx) == IF Last(res) > mx THEN Front(res) ELSE res

GPAscIter ==
    /\ scene = "chord" /\ g_pc = "asc"
    /\ Last(g_res) < g_max
    /\ Len(g_res) < MaxRes
    /\ LET st == AscBody(c_pitches, g_args.repeat_mode, g_res, g_i, g_mod)
       IN  /\ g_i' = st.i
           /\ g_mod' = st.mod
           /\ g_res' = IF st.brk THEN Trimmed(st.res, g_max) ELSE st.res
           /\ g_pc' = IF st.brk THEN "pop" ELSE "asc"
    /\ UNCHANGED <<outsideChord, scene, c_pitches, c_input, c_call, g_args, g_max>>

GPAscExit ==
    /\ scene = "chord" /\ g_pc = "asc"
    /\ ~(Last(g_res) < g_max)
    /\ g_res' = Trimmed(g_res, g_max)
    /\ g_pc' = "pop"
    /\ UNCHANGED <<outsideChord, scene, c_pitches, c_input, c_call, g_args, g_max, g_i, g_mod>>

\* lines 201-203; res[-1] of an empty list raises IndexError
PopCond(ps, rm, res) ==
    /\ Bit0or1(rm) = 3
    /\ (Last(res) % 7) # (ps[1] % 7)
    /\ Len(res) > Len(ps)

GPPop ==
    /\ scene = "chord" /\ g_pc = "pop"
    /\ IF Bit0or1(g_args.repeat_mode) = 3 /\ g_res = <<>>
       THEN g_pc' = "IndexError" /\ UNCHANGED <<g_res, g_i>>
       ELSE IF PopCond(c_pitches, g_args.repeat_mode, g_res)
       THEN g_res' = Front(g_res) /\ UNCHANGED <<g_pc, g_i>>
       ELSE g_pc' = "desc" /\ g_i' = 0 - 1 /\ UNCHANGED g_res
    /\ UNCHANGED <<outsideChord, scene, c_pitches, c_input, c_call, g_args, g_max, g_mod>>

\* lines 205-211: the descending loop, the final pop(0) and the return
GPDesc ==
    /\ scene = "chord" /\ g_pc = "desc"
    /\ LET rm == g_args.repeat_mode
           mn == g_args.min_pitch
           bass == ClassAtOrAbove(c_pitches[1], mn)
       IN  IF g_res = <<>>
           THEN g_pc' = "IndexError" /\ UNCHANGED <<g_res, g_i>>
           ELSE IF Bit2(rm) /\ g_res[1] > mn
           THEN /\ g_res' = <<PyAt(c_pitches, g_i) + bass - c_pitches[1] - 7>> \o g_res
                /\ g_i' = (g_i - 1) % Len(c_pitches)
                /\ UNCHANGED g_pc
           ELSE /\ g_res' = IF g_res[1] < mn THEN Tail(g_res) ELSE g_res
                /\ g_pc' = "done"
                /\ UNCHANGED g_i
    /\ UNCHANGED <<outsideChord, scene, c_pitches, c_input, c_call, g_args, g_max, g_mod>>

\* the caller takes the result (or the exception) of the call it made; the
\* chord itself is immutable and stays as constructed
Return ==
    /\ scene = "chord"
    /\ g_pc \in {"done", "IndexError"} \/ c_call # NoCall
    /\ c_call' = NoCall
    /\ g_pc' = "idle" /\ g_args' = IdleArgs /\ g_max' = 0
    /\ g_res' = <<>> /\ g_i' = 0 /\ g_mod' = 0
    /\ UNCHANGED <<outsideChord, scene, c_pitches, c_input>>

(***************************************************************************)
(* The chord scene: construct a chord, then call its methods               *)
(***************************************************************************)
Construct ==
    /\ scene = "chord" /\ c_pitches = <<>>
    /\ \E P \in PitchSets :
           /\ c_input' = P
           /\ c_pitches' = ChordInit(P)
    /\ UNCHANGED <<outsideChord, scene, c_call, g_pc, g_args, g_max, g_res, g_i, g_mod>>

CanCall == scene = "chord" /\ c_pitches # <<>> /\ g_pc = "idle" /\ c_call = NoCall

CallNearest ==
    /\ CanCall
    /\ \E p \in (LowPitch - 7) .. (LowPitch + PitchSpan + 7) :
           c_call' = [op |-> "nearest", arg |-> p, ret |-> Nearest(c_pitches, p),
                      other |-> <<>>, eq |-> FALSE]
    /\ UNCHANGED <<outsideChord, scene, c_pitches, c_input, g_pc, g_args, g_max, g_res, g_i, g_mod>>

\* self == other and the two hashes, for `other` a chord built from Q
Compared(op, Q) ==
    LET other == ChordInit(Q)
    IN  [op |-> op, arg |-> ChordHash(c_pitches), ret |-> ChordHash(other),
         other |-> other, eq |-> ChordEq(c_pitches, other)]

\* compare with any other chord
CallCompare ==
    /\ CanCall
    /\ \E Q \in PitchSets : c_call' = Compared("compare", Q)
    /\ UNCHANGED <<outsideChord, scene, c_pitches, c_input, g_pc, g_args, g_max, g_res, g_i, g_mod>>

\* compare with the chord built from the same pitches k octaves away
CallCompareShifted ==
    /\ CanCall
    /\ \E k \in (0 - OctShift) .. OctShift :
           c_call' = Compared("shifted", {q + 7 * k : q \in c_input})
    /\ UNCHANGED <<outsideChord, scene, c_pitches, c_input, g_pc, g_args, g_max, g_res, g_i, g_mod>>

CallGetPitches ==
    /\ CanCall
    /\ \E mn \in LowMin .. (LowMin + MinSpan), d \in 0 .. RangeSpan, rm \in 0 .. 7 :
           GPCall(mn, mn + d, rm)

ChordInitState ==
    /\ c_pitches = <<>> /\ c_input = {} /\ c_call = NoCall /\ GPIdle

(***************************************************************************)
(* Biases: the tables.  A table maps a condition (a bare element at order  *)
(* 0, a tuple of elements at the deeper orders) to a row, and a row maps   *)
(* an outcome to its weight.  Biases(dict) holds the one table [dict].     *)
(***************************************************************************)
IntElems == {1, 2}
StrElems == {"x", "y"}
Elems(kind) == IF kind = "int" THEN IntElems ELSE StrElems

EmptyTable == <<>>
HasRow(table, c) == c \in DOMAIN table
HasBias(table, c, o) == HasRow(table, c) /\ o \in DOMAIN table[c]

\* the rows a caller writes down: some outcomes, one weight
RowInputs(kind) ==
    UNION {[O -> {w}] : O \in (SUBSET Elems(kind)) \ {{}}, w \in 1 .. MaxWeight}
\* the dicts handed to Biases(): rows for some of the elements
TableInputs(kind) ==
    UNION {[D -> RowInputs(kind)] : D \in SUBSET Elems(kind)}
Histories(kind) ==
    UNION {[1 .. n -> Elems(kind)] : n \in 0 .. MaxHist}

\* Biases.__init__: self.biases = [biases if biases else {}]
BiasesInit(dict) == <<dict>>

\* add_bias lines 79-80: while len(cond) > len(self.biases): append({})
RECURSIVE Grown(_, _)
Grown(biases, n) ==
    IF n > Len(biases) THEN Grown(Append(biases, EmptyTable), n) ELSE biases

\* dict[c][o] = w on a row that exists
WithBias(biases, ix, c, o, w) ==
    [biases EXCEPT ![ix] =
        [k \in DOMAIN biases[ix] |->
            IF k = c
            THEN [x \in DOMAIN biases[ix][c] \cup {o} |->
                     IF x = o THEN w ELSE biases[ix][c][x]]
            ELSE biases[ix][k]]]

\* Biases.add_bias(bias, weight, *cond): the tables afterwards, and how it ended
AddBias(biases, o, w, cond) ==
    LET grown == Grown(biases, Len(cond))
    IN  IF Len(cond) > 1
        THEN IF HasRow(grown[Len(cond)], cond)
             THEN [status |-> "ok", biases |-> WithBias(grown, Len(cond), cond, o, w)]
             ELSE [status |-> "KeyError", biases |-> grown]
        ELSE IF Len(cond) = 0
        THEN [status |-> "IndexError", biases |-> grown]
        ELSE IF HasRow(grown[1], cond[1])
        THEN [status |-> "ok", biases |-> WithBias(grown, 1, cond[1], o, w)]
        ELSE [status |-> "KeyError", biases |-> grown]

\* Biases.get_bias(bias, *cond, default): the `default` argument is never read
GetBias(biases, o, cond, default) ==
    IF Len(cond) = 0 THEN [status |-> "IndexError", ret |-> 0]
    ELSE IF Len(cond) > Len(biases) THEN [status |-> "IndexError", ret |-> 0]
    ELSE LET cnd == IF Len(cond) > 1 THEN cond ELSE cond[1]
             table == biases[Len(cond)]
         IN  IF HasBias(table, cnd, o)
             THEN [status |-> "ok", ret |-> table[cnd][o]]
             ELSE [status |-> "ok", ret |-> 0]

(***************************************************************************)
(* Biases.__add__, one action per row of `other`                           *)
(***************************************************************************)
\* the rows of tables other.biases[i], as pairs <<i, c>> with i counted from 0
RowsOf(biases) ==
    UNION {{<<ix - 1, c>> : c \in DOMAIN biases[ix]} : ix \in 1 .. Len(biases)}

\* one outcome of a row: add_bias(b, w + get_bias(b, ...), ...), lines 110-113;
\* for i = 1 the condition tuple is passed whole, elsewhere it is unpacked
RECURSIVE MergeRow(_, _, _, _)
MergeRow(biases, cond, row, left) ==
    IF left = {} THEN [status |-> "ok", biases |-> biases]
    ELSE LET b == CHOOSE x \in left : TRUE
             got == GetBias(biases, b, cond, 0)
         IN  IF got.status # "ok" THEN [status |-> got.status, biases |-> biases]
             ELSE LET put == AddBias(biases, b, row[b] + got.ret, cond)
                  IN  IF put.status # "ok" THEN put
                      ELSE MergeRow(put.biases, cond, row, left \ {b})

\* *c of a bare condition: an int is not iterable, a one-character string
\* unpacks to itself; a tuple unpacks to its elements
AddRow(kind, biases, i, c, row) ==
    IF i = 1 THEN MergeRow(biases, <<c>>, row, DOMAIN row)
    ELSE IF i = 0
    THEN IF kind = "int" THEN [status |-> "TypeError", biases |-> biases]
         ELSE MergeRow(biases, <<c>>, row, DOMAIN row)
    ELSE MergeRow(biases, c, row, DOMAIN row)

NoBCall == [op |-> "none", status |-> "none", o |-> 0, w |-> 0, hist |-> <<>>,
            default |-> 0, ret |-> 0, none |-> FALSE, pre |-> <<>>]

BiasIdle == b_call = NoBCall /\ b_todo = {} /\ b_other = <<>>

\* every weight of the sampler is one a caller can write down
Fresh(biases) ==
    \A ix \in 1 .. Len(biases) : \A c \in DOMAIN biases[ix] :
        \A o \in DOMAIN biases[ix][c] : biases[ix][c][o] <= MaxWeight

CallAddBias ==
    /\ scene = "biases" /\ BiasIdle
    /\ \E o \in Elems(b_kind), w \in 1 .. MaxWeight, h \in Histories(b_kind) :
           LET r == AddBias(b_self, o, w, h)
           IN  /\ b_self' = r.biases
               /\ b_call' = [NoBCall EXCEPT !.op = "add_bias", !.status = r.status,
                                 !.o = o, !.w = w, !.hist = h, !.pre = b_self]
    /\ UNCHANGED <<outsideBias, scene, b_kind, b_other, b_todo>>

CallGetBias ==
    /\ scene = "biases" /\ BiasIdle
    /\ \E o \in Elems(b_kind), h \in Histories(b_kind), d \in {0, MaxWeight + 1} :
           LET r == GetBias(b_self, o, h, d)
           IN  b_call' = [NoBCall EXCEPT !.op = "get_bias", !.status = r.status,
                              !.o = o, !.hist = h, !.default = d, !.ret = r.ret,
                              !.pre = b_self]
    /\ UNCHANGED <<outsideBias, scene, b_kind, b_self, b_other, b_todo>>

\* self + other: the loops start
AddStart ==
    /\ scene = "biases" /\ BiasIdle /\ Fresh(b_self)
    /\ \E dict \in TableInputs(b_kind) :
           /\ b_other' = BiasesInit(dict)
           /\ b_todo' = RowsOf(b_other')
    /\ b_call' = [NoBCall EXCEPT !.op = "add", !.status = "running", !.pre = b_self]
    /\ UNCHANGED <<outsideBias, scene, b_kind, b_self>>

\* the next row of other.biases (tables in order, rows of a table in dict order)
AddStep ==
    /\ scene = "biases" /\ b_call.op = "add" /\ b_call.status = "running"
    /\ \E rc \in b_todo :
           /\ \A x \in b_todo : rc[1] <= x[1]
           /\ LET r == AddRow(b_kind, b_self, rc[1], rc[2], b_other[rc[1] + 1][rc[2]])
              IN  /\ b_self' = r.biases
                  /\ b_todo' = b_todo \ {rc}
                  /\ b_call' = IF r.status = "ok" THEN b_call
                               ELSE [b_call EXCEPT !.status = r.status]
    /\ UNCHANGED <<outsideBias, scene, b_kind, b_other>>

\* the loops are over and __add__ falls off its end: it returns None
AddFinish ==
    /\ scene = "biases" /\ b_call.op = "add" /\ b_call.status = "running"
    /\ b_todo = {}
    /\ b_call' = [b_call EXCEPT !.status = "ok", !.none = TRUE]
    /\ UNCHANGED <<outsideBias, scene, b_kind, b_self, b_other, b_todo>>

\* the caller takes the result or the exception
BiasReturn ==
    /\ scene = "biases" /\ b_call.op # "none" /\ b_call.status # "running"
    /\ b_call' = NoBCall /\ b_todo' = {} /\ b_other' = <<>>
    /\ UNCHANGED <<outsideBias, scene, b_kind, b_self>>

BiasParked == b_kind = "int" /\ b_self = <<>> /\ BiasIdle

(***************************************************************************)
(* Biases.get: the outcomes the weighted draw can return                   *)
(***************************************************************************)
\* a dict looks a Chord up by its hash and __eq__; an int or a str by itself
KeyOf(kind, e) == IF kind = "chord" THEN ChordHash(e) ELSE e

\* hist after i+1 elements of cond[::-1]: the last i+1 elements, as dict keys
HistKey(kind, cond, i) ==
    [k \in 1 .. (i + 1) |-> KeyOf(kind, cond[Len(cond) - i - 1 + k])]

\* the row of order 0 matches (lines 57-60)
MatchesOrder0(biases, kind, cond) ==
    Len(cond) >= 1 /\ HasRow(biases[1], KeyOf(kind, Last(cond)))

\* a row of a deeper order matches before the walk breaks off (lines 61-70);
\* the blend then unpacks each table of self.biases as a (k, b) pair and
\* divides a condition by a number, which raises for every table list
MatchesDeeper(biases, kind, cond) ==
    \E i \in 1 .. (Len(cond) - 1) :
        /\ i < Len(biases)
        /\ HasRow(biases[i + 1], HistKey(kind, cond, i))

RECURSIVE SumWeights(_, _)
SumWeights(row, left) ==
    IF left = {} THEN 0
    ELSE LET o == CHOOSE x \in left : TRUE
         IN  row[o] + SumWeights(row, left \ {o})

\* a wrong variant: the draw is made over every element, recorded or not
BiasesGetAnyRow(biases, kind, cond) ==
    [status |-> "ok", outs |-> Elems(kind)]

\* Biases.get(*cond): how the call ends and what choices() can return
BiasesGet(biases, kind, cond) ==
    IF MatchesDeeper(biases, kind, cond)
    THEN [status |-> "TypeError", outs |-> {}]
    ELSE IF ~MatchesOrder0(biases, kind, cond)
    THEN [status |-> "IndexError", outs |-> {}]
    ELSE LET row == biases[1][KeyOf(kind, Last(cond))]
         IN  IF DOMAIN row = {} THEN [status |-> "IndexError", outs |-> {}]
             ELSE IF SumWeights(row, DOMAIN row) = 0
             THEN [status |-> "ZeroDivisionError", outs |-> {}]
             ELSE [status |-> "ok", outs |-> {o \in DOMAIN row : row[o] > 0}]

\* a client calls get(*cond); the draw returns one of the outcomes it can
CallGet ==
    /\ scene = "biases" /\ BiasIdle
    /\ \E h \in Histories(b_kind) :
           LET r == BiasesGet(b_self, b_kind, h)
               call == [NoBCall EXCEPT !.op = "get", !.status = r.status,
                                       !.hist = h, !.pre = b_self]
           IN  IF r.status # "ok" THEN b_call' = call
               ELSE \E o \in r.outs : b_call' = [call EXCEPT !.ret = o]
    /\ UNCHANGED <<outsideBias, scene, b_kind, b_self, b_other, b_todo>>

(***************************************************************************)
(* PROGRESSION and Progression.from_biases                                 *)
(***************************************************************************)
ChI == ChordInit({1, 3, 5})
ChII == ChordInit({2, 4, 6})
ChIII == ChordInit({3, 5, 7})
ChIV == ChordInit({4, 6, 8})
ChV == ChordInit({5, 7, 9})
ChVI == ChordInit({6, 8, 10})
ChVII == ChordInit({7, 9, 11})

\* a dict from its items {<<key, value>>}
DictOf(items) ==
    [k \in {it[1] : it \in items} |-> (CHOOSE it \in items : it[1] = k)[2]]
\* a row giving each of the chords weight 1
Ones(chords) == [c \in chords |-> 1]

\* a wrong variant: the mediant leads only to itself
PROGRESSIONClosed ==
    BiasesInit(DictOf({
        <<ChordHash(ChI), Ones({ChI, ChII, ChIII, ChIV, ChV, ChVI, ChVII})>>,
        <<ChordHash(ChII), Ones({ChV, ChVII})>>,
        <<ChordHash(ChIII), Ones({ChIII})>>,
        <<ChordHash(ChIV), Ones({ChVII, ChV})>>,
        <<ChordHash(ChV), Ones({ChI})>>,
        <<ChordHash(ChVI), Ones({ChII, ChIV})>>,
        <<ChordHash(ChVII), Ones({ChI})>>}))

PROGRESSION ==
    BiasesInit(DictOf({
        <<ChordHash(ChI), Ones({ChI, ChII, ChIII, ChIV, ChV, ChVI, ChVII})>>,
        <<ChordHash(ChII), Ones({ChV, ChVII})>>,
        <<ChordHash(ChIII), Ones({ChVI})>>,
        <<ChordHash(ChIV), Ones({ChVII, ChV})>>,
        <<ChordHash(ChV), Ones({ChI})>>,
        <<ChordHash(ChVI), Ones({ChII, ChIV})>>,
        <<ChordHash(ChVII), Ones({ChI})>>}))

\* lst[-n:] of a Python list
PySuffix(lst, n) ==
    IF n = 0 \/ n >= Len(lst) THEN lst ELSE SubSeq(lst, Len(lst) - n + 1, Len(lst))

\* == of two lists of chords: equal lengths and elementwise Chord.__eq__
ChordListEq(a, b) ==
    Len(a) = Len(b) /\ \A k \in 1 .. Len(a) : ChordEq(a[k], b[k])

\* a plausible slip: `or` for `and` in the exit test
FBExitEither(res, force_end, min_len) ==
    ChordListEq(PySuffix(res, Len(force_end)), force_end) \/ Len(res) >= min_len

\* line 785: res[-end_len:] == force_end and len(res) >= min_len
FBExit(res, force_end, min_len) ==
    ChordListEq(PySuffix(res, Len(force_end)), force_end) /\ Len(res) >= min_len

\* the chords callers seed and end a progression with; two of them are the
\* tonic and the dominant written an octave higher
SeedChords == {ChI, ChIV, ChV}
Seeds == UNION {[1 .. n -> SeedChords] : n \in 0 .. MaxSeed}
ForceEnds == {<<>>, <<ChI>>, <<ChV, ChI>>,
              <<ChordInit({12, 14, 16}), ChordInit({8, 10, 12})>>}

ProgIdleArgs == [first |-> <<>>, force_end |-> <<>>, min_len |-> 0]
ProgIdle == p_pc = "idle" /\ p_args = ProgIdleArgs /\ p_res = <<>>

\* lines 781-782: end_len = len(force_end); res = first[:]
FBCall ==
    /\ scene = "progression" /\ p_pc = "idle"
    /\ \E first \in Seeds, force_end \in ForceEnds, min_len \in 0 .. MaxMinLen :
           /\ p_args' = [first |-> first, force_end |-> force_end, min_len |-> min_len]
           /\ p_res' = first
    /\ p_pc' = "loop"
    /\ UNCHANGED <<outsideProg, scene>>

\* lines 783-787: one pass of `while True`
FBIter ==
    /\ scene = "progression" /\ p_pc = "loop"
    /\ Len(p_res) < MaxProgLen
    /\ LET got == BiasesGet(PROGRESSION, "chord", p_res)
       IN  IF got.status # "ok"
           THEN p_pc' = got.status /\ UNCHANGED p_res
           ELSE \E c \in got.outs :
                    /\ p_res' = Append(p_res, c)
                    /\ p_pc' = IF FBExit(p_res', p_args.force_end, p_args.min_len)
                               THEN "done" ELSE "loop"
    /\ UNCHANGED <<outsideProg, scene, p_args>>

\* the caller takes the Progression (or the exception)
FBReturn ==
    /\ scene = "progression" /\ p_pc \notin {"idle", "loop"}
    /\ p_pc' = "idle" /\ p_args' = ProgIdleArgs /\ p_res' = <<>>
    /\ UNCHANGED <<outsideProg, scene>>

(***************************************************************************)
(* Rhythm tokens: NOTE_LENS, duration, count_notes, fill_rests             *)
(***************************************************************************)
\* NOTE_LENS in 24ths of a beat
NoteLen(r) ==
    CASE r = "w" -> 96 [] r = "H" -> 72 [] r = "h" -> 48 [] r = "Q" -> 36
      [] r = "q" -> 24 [] r = "E" -> 18 [] r = "e" -> 12 [] r = "s" -> 6
      [] r = "t" -> 8  [] r = "T" -> 16 [] r = " " -> 24 [] r = "." -> 12
      [] r = "_" -> 48 [] r = "," -> 6  [] r = "-" -> 96 [] r = "G" -> 3
      [] r = "g" -> 0  [] r = "1" -> 30 [] r = "2" -> 42 [] r = "3" -> 54
      [] r = "4" -> 60 [] r = "5" -> 66 [] r = "6" -> 78 [] r = "7" -> 84
      [] r = "8" -> 90

\* the rest tokens, " _-.,"
Rests == {" ", "_", "-", ".", ","}

RECURSIVE Duration(_)
Duration(rhythm) ==
    IF rhythm = <<>> THEN 0 ELSE NoteLen(rhythm[1]) + Duration(Tail(rhythm))

RECURSIVE CountNotes(_)
CountNotes(rhythm) ==
    IF rhythm = <<>> THEN 0
    ELSE (IF rhythm[1] \in Rests THEN 0 ELSE 1) + CountNotes(Tail(rhythm))

\* REST_LENS, longest first, lengths in 24ths of a beat
RestKeys == <<96, 48, 24, 12, 6>>
RestOf(len) ==
    CASE len = 96 -> "-" [] len = 48 -> "_" [] len = 24 -> " "
      [] len = 12 -> "." [] len = 6 -> ","

\* fill_rests lines 104-106: the longest rest as often as it fits
RECURSIVE FillLongest(_, _, _)
FillLongest(beats, res, time) ==
    IF time + RestKeys[1] <= beats
    THEN FillLongest(beats, Append(res, RestOf(RestKeys[1])), time + RestKeys[1])
    ELSE [res |-> res, time |-> time]

\* fill_rests lines 107-110: each shorter rest once, when it fits
RECURSIVE FillShorter(_, _, _, _)
FillShorter(beats, res, time, k) ==
    IF k > Len(RestKeys) THEN res
    ELSE IF time + RestKeys[k] <= beats
    THEN FillShorter(beats, Append(res, RestOf(RestKeys[k])), time + RestKeys[k], k + 1)
    ELSE FillShorter(beats, res, time, k + 1)

FillRests(beats) ==
    LET st == FillLongest(beats, <<>>, 0)
    IN  FillShorter(beats, st.res, st.time, 2)

(***************************************************************************)
(* The default tables RYTH, BREAKS, INTERVALS, CHD_LEN.  Only the sign of  *)
(* a weight decides what a draw can return; RYTH's weights are written in  *)
(* quarters so that 0.25 is the integer 1.                                 *)
(***************************************************************************)
\* a wrong variant: a half note offered with one beat remaining
RYTHOverrun ==
    BiasesInit(DictOf({
        <<1, DictOf({<<"q", 16>>, <<"h", 16>>, <<" ", 1>>})>>,
        <<2, DictOf({<<"q", 108>>, <<"h", 36>>, <<" ", 1>>})>>,
        <<3, DictOf({<<"q", 48>>, <<"h", 16>>, <<"H", 24>>, <<" ", 1>>})>>,
        <<4, DictOf({<<"q", 48>>, <<"h", 24>>, <<"H", 8>>, <<"w", 4>>, <<" ", 1>>})>>}))

RYTH ==
    BiasesInit(DictOf({
        <<1, DictOf({<<"q", 16>>, <<" ", 1>>})>>,
        <<2, DictOf({<<"q", 108>>, <<"h", 36>>, <<" ", 1>>})>>,
        <<3, DictOf({<<"q", 48>>, <<"h", 16>>, <<"H", 24>>, <<" ", 1>>})>>,
        <<4, DictOf({<<"q", 48>>, <<"h", 24>>, <<"H", 8>>, <<"w", 4>>, <<" ", 1>>})>>}))

\* a wrong variant: a quarter note split into less than a quarter note
BREAKSLossy ==
    BiasesInit(DictOf({
        <<"w", DictOf({<< <<"h", "h">>, 1>>})>>,
        <<"q", DictOf({<< <<"e", "s">>, 1>>})>>}))

BREAKS ==
    BiasesInit(DictOf({
        <<"w", DictOf({<< <<"h", "h">>, 1>>, << <<"H", "q">>, 1>>})>>,
        <<"H", DictOf({<< <<"h", "q">>, 1>>})>>,
        <<"h", DictOf({<< <<"q", "q">>, 4>>, << <<"Q", "e">>, 1>>})>>,
        <<"Q", DictOf({<< <<"q", "e">>, 1>>})>>,
        <<"q", DictOf({<< <<"e", "e">>, 9>>, << <<"E", "s">>, 1>>})>>,
        <<"E", DictOf({<< <<"e", "s">>, 1>>})>>,
        <<"e", DictOf({<< <<"s", "s">>, 1>>})>>,
        <<"s", DictOf({<< <<"G", "G">>, 1>>})>>,
        <<"G", DictOf({<< <<"G", "g">>, 1>>})>>,
        <<"g", DictOf({<< <<"g", "g">>, 1>>})>>}))

INTERVALS ==
    BiasesInit(DictOf({
        <<0, DictOf({<<0, 1>>, <<1, 1>>, <<0 - 1, 1>>})>>,
        <<1, DictOf({<<0, 3>>, <<1, 3>>, <<0 - 1, 4>>})>>,
        <<0 - 1, DictOf({<<0, 3>>, <<1, 4>>, <<0 - 1, 3>>})>>}))

CHD_LEN ==
    BiasesInit(DictOf({
        <<0, DictOf({<<4, 1>>})>>, <<1, DictOf({<<4, 1>>})>>,
        <<2, DictOf({<<4, 1>>})>>, <<3, DictOf({<<4, 1>>})>>,
        <<4, DictOf({<<4, 1>>})>>}))

\* a table row is asked for with a number of beats: only a whole number of
\* beats equals one of the integer keys
GetByBeats(biases, len24) ==
    IF len24 % 24 = 0 THEN BiasesGet(biases, "int", <<len24 \div 24>>)
    ELSE [status |-> "IndexError", outs |-> {}]

(***************************************************************************)
(* Chord._next_pitch and get_pitches as one call                           *)
(***************************************************************************)
\* list.index: the first position of x, counted from 0
IndexOf(s, x) == (CHOOSE k \in 1 .. Len(s) : s[k] = x /\ \A l \in 1 .. (k - 1) : s[l] # x) - 1

NextPitch(ps, previous, change) ==
    LET prv == Nearest(ps, previous)
        deltas == ScaleIntervals(ps)
        prev == (prv - ps[1]) % 7
        prev_ix == IndexOf(deltas, prev)
        octs == (prev_ix + change) \div Len(deltas)
    IN  deltas[((prev_ix + change) % Len(deltas)) + 1] + prv - prev + 7 * octs

\* the ascending loop run to its end.  When bit 1 of repeat_mode is set and
\* every pitch of the chord equals the root, an iteration appends res[-1]
\* again and the loop never ends; otherwise each round of len(pitches)
\* iterations raises res[-1], so the loop ends within the fuel given below
RECURSIVE AscRun(_, _, _, _, _, _, _)
AscRun(ps, rm, mx, res, i, mod, fuel) ==
    IF ~(Last(res) < mx) THEN [status |-> "ok", res |-> Trimmed(res, mx)]
    ELSE IF fuel = 0 THEN [status |-> "diverges", res |-> res]
    ELSE LET st == AscBody(ps, rm, res, i, mod)
         IN  IF st.brk THEN [status |-> "ok", res |-> Trimmed(st.res, mx)]
             ELSE AscRun(ps, rm, mx, st.res, st.i, st.mod, fuel - 1)

RECURSIVE PopRun(_, _, _)
PopRun(ps, rm, res) ==
    IF Bit0or1(rm) = 3 /\ res = <<>> THEN [status |-> "IndexError", res |-> res]
    ELSE IF PopCond(ps, rm, res) THEN PopRun(ps, rm, Front(res))
    ELSE [status |-> "ok", res |-> res]

RECURSIVE DescRun(_, _, _, _, _)
DescRun(ps, rm, mn, res, i) ==
    IF res = <<>> THEN [status |-> "IndexError", res |-> res]
    ELSE IF Bit2(rm) /\ res[1] > mn
    THEN DescRun(ps, rm, mn,
                 <<PyAt(ps, i) + ClassAtOrAbove(ps[1], mn) - ps[1] - 7>> \o res,
                 (i - 1) % Len(ps))
    ELSE [status |-> "ok", res |-> IF res[1] < mn THEN Tail(res) ELSE res]

GetPitches(ps, mn, mx, rm) ==
    LET bass == ClassAtOrAbove(ps[1], mn)
        nmx == NarrowedMax(ps, mn, mx, rm)
        asc == AscRun(ps, rm, nmx, <<bass>>, 0, bass - ps[1],
                      Len(ps) * (Abs(nmx - bass) + 2))
    IN  IF asc.status # "ok" THEN asc
        ELSE LET pop == PopRun(ps, rm, asc.res)
             IN  IF pop.status # "ok" THEN pop
                 ELSE DescRun(ps, rm, mn, pop.res, 0 - 1)

(***************************************************************************)
(* Part, and the Progression methods that build one                        *)
(***************************************************************************)
\* a Part: its notes, its rhythm string as a sequence of one-character
\* tokens, and whether the notes are pitches or lists of pitches
PartOf(notes, rhythms, kind) == [notes |-> notes, rhythms |-> rhythms, kind |-> kind]
NoPart == PartOf(<<>>, <<>>, "pitch")

\* the Parts callers hand in: every rhythm of up to MaxTokens tokens with one
\* pitch for each played token
InputNoteTokens == {"q", "t"}
InputRestTokens == {" "}
NoteVals == {1, 2, 5}
RECURSIVE PartsOfLen(_)
PartsOfLen(n) ==
    IF n = 0 THEN {NoPart}
    ELSE LET shorter == PartsOfLen(n - 1)
         IN  {PartOf(q.notes, Append(q.rhythms, r), "pitch") :
                  q \in shorter, r \in InputRestTokens}
             \cup {PartOf(Append(q.notes, v), Append(q.rhythms, r), "pitch") :
                  q \in shorter, r \in InputNoteTokens, v \in NoteVals}
PartInputs == UNION {PartsOfLen(n) : n \in 0 .. MaxTokens}

\* a line that repeats the tonic in eighth notes
RunInputs == {PartOf([k \in 1 .. MaxRun |-> 1], [k \in 1 .. MaxRun |-> "e"], "pitch")}

\* the chord lists of the progressions a Part is generated from
ProgInputs == {<<ChI>>, <<ChV, ChI>>}

SkelIdle ==
    [notes |-> <<>>, ryth |-> <<>>, pre |-> 0, intervals |-> <<0>>,
     chd_lens |-> <<>>, rem |-> 0, k |-> 0,
     meter |-> 0, min_pitch |-> 0, max_pitch |-> 0]
RefIdle ==
    [reps |-> 0, steps |-> 0, leaps |-> 0, note_num |-> 0, i |-> 0,
     end_tonic |-> FALSE]

\* no call made yet; the fields are the arguments rhythm, voice, min_pitch,
\* max_pitch and repeat_mode of chord_background and get_voice, and the
\* argument meter of measures with how the iteration ended and what it yielded,
\* and the receiver of refine as it was when refine was called
NoMCall ==
    [op |-> "none", rhythm |-> <<>>, voice |-> 0, min_pitch |-> 0, max_pitch |-> 0,
     repeat_mode |-> 0, meter |-> 0, status |-> "none", yielded |-> <<>>,
     line |-> NoPart]

PartIdle ==
    /\ m_pc = "idle" /\ m_chords = <<>> /\ sk = SkelIdle
    /\ part = NoPart /\ ref = NoPart /\ r_loc = RefIdle /\ m_call = NoMCall

\* Part(notes, rhythms) called by a client
PartNew ==
    /\ scene = "part" /\ m_pc = "idle"
    /\ \E q \in PartInputs \cup RunInputs : part' = q
    /\ m_pc' = "made"
    /\ m_call' = [NoMCall EXCEPT !.op = "Part"]
    /\ UNCHANGED <<outsidePart, scene, m_chords, sk, ref, r_loc>>

\* (meter, min_pitch, max_pitch) of a skeleton call; the first is the default
SkelArgs == {<<4, 1, 11>>, <<4, 1, 8>>}

\* skeleton lines 728-732
SkelCall ==
    /\ scene = "part" /\ m_pc = "idle"
    /\ m_chords' \in ProgInputs
    /\ \E a \in SkelArgs :
           sk' = [SkelIdle EXCEPT !.meter = a[1], !.min_pitch = a[2], !.max_pitch = a[3],
                                  !.pre = a[2] + ((7 - ((a[2] - 1) % 7)) % 7)]
    /\ m_pc' = "skel"
    /\ m_call' = [NoMCall EXCEPT !.op = "skeleton", !.min_pitch = sk'.min_pitch,
                                  !.max_pitch = sk'.max_pitch]
    /\ UNCHANGED <<outsidePart, scene, part, ref, r_loc>>

\* lines 733-735: the next chord of the for loop draws its length
SkelChord ==
    /\ scene = "part" /\ m_pc = "skel"
    /\ sk.rem = 0 /\ sk.k < Len(m_chords)
    /\ LET got == GetByBeats(CHD_LEN, Duration(sk.ryth) % (sk.meter * 24))
       IN  IF got.status # "ok" THEN m_pc' = got.status /\ UNCHANGED sk
           ELSE /\ \E len \in got.outs :
                       sk' = [sk EXCEPT !.rem = len * 24, !.k = @ + 1,
                                        !.chd_lens = Append(@, len)]
                /\ UNCHANGED m_pc
    /\ UNCHANGED <<outsidePart, scene, m_call, m_chords, part, ref, r_loc>>

\* lines 740-744: the pitch of a played token
SkelNote(chd, pre, next_interval, min_pitch, max_pitch) ==
    LET note == NextPitch(chd, pre, next_interval)
    IN  IF note > max_pitch THEN NextPitch(chd, pre, 0 - next_interval)
        ELSE IF note < min_pitch THEN NextPitch(chd, pre, next_interval)
        ELSE note

\* lines 736-747: one pass of `while rem`
SkelToken ==
    /\ scene = "part" /\ m_pc = "skel"
    /\ sk.rem # 0
    /\ Len(sk.ryth) < MaxSkelLen
    /\ LET got == GetByBeats(RYTH, sk.rem)
           ivs == BiasesGet(INTERVALS, "int", sk.intervals)
       IN  IF got.status # "ok" THEN m_pc' = got.status /\ UNCHANGED sk
           ELSE \E r \in got.outs :
                    IF r \in Rests
                    THEN /\ sk' = [sk EXCEPT !.ryth = Append(@, r),
                                             !.rem = @ - NoteLen(r)]
                         /\ UNCHANGED m_pc
                    ELSE IF ivs.status # "ok"
                    THEN /\ m_pc' = ivs.status
                         /\ sk' = [sk EXCEPT !.ryth = Append(@, r)]
                    ELSE /\ \E iv \in ivs.outs :
                             LET note == SkelNote(m_chords[sk.k], sk.pre, iv,
                                                  sk.min_pitch, sk.max_pitch)
                             IN  sk' = [sk EXCEPT !.ryth = Append(@, r),
                                                  !.notes = Append(@, note),
                                                  !.pre = note,
                                                  !.rem = @ - NoteLen(r)]
                         /\ UNCHANGED m_pc
    /\ UNCHANGED <<outsidePart, scene, m_call, m_chords, part, ref, r_loc>>

\* line 748; the locals end with the call
SkelReturn ==
    /\ scene = "part" /\ m_pc = "skel"
    /\ sk.rem = 0 /\ sk.k = Len(m_chords)
    /\ part' = PartOf(sk.notes, sk.ryth, "pitch")
    /\ sk' = SkelIdle
    /\ m_pc' = "made"
    /\ UNCHANGED <<outsidePart, scene, m_call, m_chords, ref, r_loc>>

\* [x] * n
Repeated(x, n) == [k \in 1 .. n |-> x]

\* the rhythm patterns handed to chord_background and get_voice
PatternInputs ==
    {<< <<"w">> >>, << <<"q", " ", "q", " ">> >>,
     << <<"h", "h">>, <<"q", "_">> >>, << <<" ", "h">>, <<"w">> >>}
\* (min_pitch, max_pitch) of a voicing; the first is the default
VoiceRanges == {<<0 - 16, 0 - 6>>, <<1, 11>>}

\* chord_background lines 559-565 for the chords from position k on
RECURSIVE BackgroundFrom(_, _, _, _, _, _, _)
BackgroundFrom(chords, k, ryths, i, mn, mx, rm) ==
    IF k > Len(chords) THEN [status |-> "ok", part |-> PartOf(<<>>, <<>>, "chord")]
    ELSE LET got == GetPitches(chords[k], mn, mx, rm)
             rest == BackgroundFrom(chords, k + 1, ryths, (i + 1) % Len(ryths), mn, mx, rm)
         IN  IF got.status # "ok" THEN [status |-> got.status, part |-> NoPart]
             ELSE IF rest.status # "ok" THEN rest
             ELSE [status |-> "ok",
                   part |-> PartOf(Repeated(got.res, CountNotes(ryths[i + 1])) \o rest.part.notes,
                                   ryths[i + 1] \o rest.part.rhythms, "chord")]

ChordBackground ==
    /\ scene = "part" /\ m_pc = "idle"
    /\ \E chords \in ProgInputs, ryths \in PatternInputs, range \in VoiceRanges,
          rm \in 0 .. 7 :
           /\ m_chords' = chords
           /\ m_call' = [NoMCall EXCEPT !.op = "chord_background", !.rhythm = ryths,
                                        !.min_pitch = range[1], !.max_pitch = range[2],
                                        !.repeat_mode = rm]
           /\ LET out == BackgroundFrom(chords, 1, ryths, 0, range[1], range[2], rm)
              IN  IF out.status # "ok" THEN m_pc' = out.status /\ UNCHANGED part
                  ELSE m_pc' = "made" /\ part' = out.part
    /\ UNCHANGED <<outsidePart, scene, sk, ref, r_loc>>

\* get_voice lines 609-619 for the chords from position k on
RECURSIVE VoiceFrom(_, _, _, _, _, _, _, _, _)
VoiceFrom(chords, k, ryths, i, tacet, mn, mx, rm, voice) ==
    IF k > Len(chords) THEN [status |-> "ok", part |-> NoPart]
    ELSE LET got == GetPitches(chords[k], mn, mx, rm)
             rest == VoiceFrom(chords, k + 1, ryths, (i + 1) % Len(ryths), tacet,
                               mn, mx, rm, voice)
         IN  IF got.status # "ok" THEN [status |-> got.status, part |-> NoPart]
             ELSE IF rest.status # "ok" THEN rest
             ELSE IF voice < Len(got.res)
             THEN [status |-> "ok",
                   part |-> PartOf(Repeated(got.res[voice + 1], CountNotes(ryths[i + 1]))
                                       \o rest.part.notes,
                                   ryths[i + 1] \o rest.part.rhythms, "pitch")]
             ELSE [status |-> "ok",
                   part |-> PartOf(rest.part.notes, tacet \o rest.part.rhythms, "pitch")]

GetVoice ==
    /\ scene = "part" /\ m_pc = "idle"
    /\ \E chords \in ProgInputs, ryths \in PatternInputs, range \in VoiceRanges,
          rm \in 0 .. 7, voice \in 0 .. MaxVoice :
           /\ m_chords' = chords
           /\ m_call' = [NoMCall EXCEPT !.op = "get_voice", !.rhythm = ryths,
                                        !.voice = voice,
                                        !.min_pitch = range[1], !.max_pitch = range[2],
                                        !.repeat_mode = rm]
           /\ LET tacet == FillRests(Duration(ryths[1]))
                  out == VoiceFrom(chords, 1, ryths, 0, tacet, range[1], range[2], rm, voice)
              IN  IF out.status # "ok" THEN m_pc' = out.status /\ UNCHANGED part
                  ELSE m_pc' = "made" /\ part' = out.part
    /\ UNCHANGED <<outsidePart, scene, sk, ref, r_loc>>

\* the Parts handed to extend
ExtendInputs(kind) ==
    IF kind = "pitch"
    THEN {PartOf(<<1>>, <<"q">>, "pitch"), PartOf(<<>>, <<"-">>, "pitch"),
          PartOf(<<5, 2>>, <<"h", " ", "h">>, "pitch")}
    ELSE {PartOf(<< <<1, 3, 5>> >>, <<"w">>, "chord")}

\* extend lines 445-446
Extend ==
    /\ scene = "part" /\ m_pc = "made"
    /\ \E other \in ExtendInputs(part.kind) :
           /\ Len(part.rhythms) + Len(other.rhythms) <= MaxPartLen
           /\ part' = PartOf(part.notes \o other.notes, part.rhythms \o other.rhythms,
                             part.kind)
    /\ m_call' = [NoMCall EXCEPT !.op = "extend"]
    /\ UNCHANGED <<outsidePart, scene, m_pc, m_chords, sk, ref, r_loc>>

(***************************************************************************)
(* Part.measures, iterated to its end                                      *)
(***************************************************************************)
\* lines 493-501 from the k-th rhythm token on; meter in 24ths of a beat
RECURSIVE MeasuresFrom(_, _, _, _, _, _, _)
MeasuresFrom(p, meter, k, ni, m_notes, m_ryth, out) ==
    IF k > Len(p.rhythms) THEN [status |-> "ok", yielded |-> out]
    ELSE LET r == p.rhythms[k]
             played == r \notin Rests
             notes == IF played THEN Append(m_notes, p.notes[ni + 1]) ELSE m_notes
             ryth == Append(m_ryth, r)
         IN  IF played /\ ni >= Len(p.notes)
             THEN [status |-> "IndexError", yielded |-> out]
             ELSE IF Duration(ryth) >= meter
             THEN MeasuresFrom(p, meter, k + 1, IF played THEN ni + 1 ELSE ni, <<>>, <<>>,
                               Append(out, [notes |-> notes, ryth |-> ryth]))
             ELSE MeasuresFrom(p, meter, k + 1, IF played THEN ni + 1 ELSE ni, notes, ryth,
                               out)

\* the meters a client asks for, in beats; 4 is the default
Meters == {4, 1}

\* list(part.measures(meter))
CallMeasures ==
    /\ scene = "part" /\ m_pc = "made" /\ m_call.op # "measures"
    /\ \E meter \in Meters :
           LET got == MeasuresFrom(part, meter * 24, 1, 0, <<>>, <<>>, <<>>)
           IN  m_call' = [NoMCall EXCEPT !.op = "measures", !.meter = meter,
                                         !.status = got.status, !.yielded = got.yielded]
    /\ UNCHANGED <<outsidePart, scene, m_pc, m_chords, sk, part, ref, r_loc>>

(***************************************************************************)
(* Part.refine                                                             *)
(***************************************************************************)
\* a wrong variant: the draw can fail to fall under a threshold of 1
AuxOutcomesLoose(reps) == {TRUE, FALSE}

\* whether random() < aux_func(reps) can come out true, false, or both, for
\* the default aux_func 1 / (6 - n): 1 at n = 5, negative above 6
AuxOutcomes(reps) ==
    IF reps = 5 THEN {TRUE} ELSE IF reps > 6 THEN {FALSE} ELSE {TRUE, FALSE}

\* the same for the default pass_func, which is 0.0 when leaps = 0 < steps
PassOutcomes(steps, leaps) ==
    IF leaps = 0 /\ steps >= 1 THEN {FALSE} ELSE {TRUE, FALSE}

\* breaks.get(r) with the default breaks
BreaksGet(r) == BiasesGet(BREAKS, "str", <<r>>)

\* rhythms[:i] + pair + rhythms[i+1:]
Spliced(rhythms, i, pair) ==
    SubSeq(rhythms, 1, i) \o pair \o SubSeq(rhythms, i + 2, Len(rhythms))

\* notes.insert(k, x)
Inserted(notes, k, x) ==
    SubSeq(notes, 1, k) \o <<x>> \o SubSeq(notes, k + 1, Len(notes))

\* a wrong variant: the tonic below the pitch, however far
NearestTonicBelow(p) == p - ((p - 1) % 7)

\* lines 423-427
NearestTonic(p) ==
    LET last == (p - 1) % 7
    IN  IF last < 4 THEN p - last ELSE p - last + 7

\* a wrong variant: the rest stays a rest
RestToNoteKept(r) == r

\* line 430: "qsewh"[" ,.-_".index(r)]
RestToNote(r) ==
    CASE r = " " -> "q" [] r = "," -> "s" [] r = "." -> "e"
      [] r = "-" -> "w" [] r = "_" -> "h"

\* line 368; self.notes and ref.notes are one list when it is not empty
RefineCall ==
    /\ scene = "part" /\ m_pc = "made"
    /\ \E end_tonic \in BOOLEAN : r_loc' = [RefIdle EXCEPT !.end_tonic = end_tonic]
    /\ ref' = part
    /\ m_pc' = "refine"
    /\ m_call' = [NoMCall EXCEPT !.op = "refine", !.line = part]
    /\ UNCHANGED <<outsidePart, scene, m_chords, sk, part>>

Outcome(pc, rf, loc) == [pc |-> pc, ref |-> rf, loc |-> loc]

\* lines 388-399, a repeated note: n is the note, nn the advanced note_num
RepeatOutcomes(rf, loc, r, n, nn) ==
    LET on == [loc EXCEPT !.note_num = nn]
        stay == {Outcome("refine", rf, [on EXCEPT !.reps = @ + 1, !.i = @ + 1])}
        got == BreaksGet(r)
        ins == IF rf.kind = "chord" THEN {Outcome("TypeError", rf, on)}
               ELSE UNION {
                   LET grown == [rf EXCEPT !.notes = Inserted(@, nn, aux)]
                   IN  IF got.status # "ok" THEN {Outcome(got.status, grown, on)}
                       ELSE {Outcome("refine",
                                     [grown EXCEPT !.rhythms = Spliced(@, loc.i, pair)],
                                     [on EXCEPT !.reps = 1, !.i = @ + 1]) :
                                 pair \in got.outs}
                   : aux \in {n + 1, n - 1}}
    IN  IF loc.reps = 6 THEN {Outcome("ZeroDivisionError", rf, on)}
        ELSE (IF TRUE \in AuxOutcomes(loc.reps) THEN ins ELSE {})
             \cup (IF FALSE \in AuxOutcomes(loc.reps) THEN stay ELSE {})

\* a wrong variant: the tone inserted is the note left
PassingToneRepeated(n, nxt) == n

\* lines 406-409: the tone one step from n towards the next note
PassingTone(n, nxt) == IF n > nxt THEN n - 1 ELSE n + 1

\* lines 400-414, a leap
LeapOutcomes(rf, loc, r, n, nn) ==
    LET on == [loc EXCEPT !.note_num = nn]
        stay == {Outcome("refine", rf,
                         [on EXCEPT !.leaps = @ + 1, !.reps = 0, !.i = @ + 1])}
        got == BreaksGet(r)
        tone == PassingTone(n, rf.notes[nn + 1])
        ins == IF got.status # "ok" THEN {Outcome(got.status, rf, on)}
               ELSE {Outcome("refine",
                             [rf EXCEPT !.rhythms = Spliced(@, loc.i, pair),
                                        !.notes = Inserted(@, nn, tone)],
                             [on EXCEPT !.steps = @ + 1, !.reps = 0, !.i = @ + 1]) :
                         pair \in got.outs}
    IN  (IF TRUE \in PassOutcomes(loc.steps, loc.leaps) THEN ins ELSE {})
        \cup (IF FALSE \in PassOutcomes(loc.steps, loc.leaps) THEN stay ELSE {})

\* lines 375-420: one pass of the while loop that does not leave it
IterOutcomes(rf, loc) ==
    LET r == rf.rhythms[loc.i + 1]
        n == rf.notes[loc.note_num + 1]
        nn == loc.note_num + 1
        on == [loc EXCEPT !.note_num = nn]
    IN  IF r \in Rests THEN {Outcome("refine", rf, [loc EXCEPT !.i = @ + 1])}
        ELSE IF n = rf.notes[nn + 1] THEN RepeatOutcomes(rf, loc, r, n, nn)
        ELSE IF rf.kind = "chord" THEN {Outcome("TypeError", rf, on)}
        ELSE IF Abs(n - rf.notes[nn + 1]) > 1 THEN LeapOutcomes(rf, loc, r, n, nn)
        ELSE {Outcome("refine", rf, [on EXCEPT !.steps = @ + 1, !.reps = 0, !.i = @ + 1])}

\* the while condition holds and the break of line 377 is not taken
InLoop(rf, loc) ==
    loc.i < Len(rf.rhythms) /\ ~(loc.note_num + 1 >= Len(rf.notes))

\* the insertions write ref.notes, which is the receiver's list
RefineIter ==
    /\ scene = "part" /\ m_pc = "refine"
    /\ InLoop(ref, r_loc)
    /\ \E o \in IterOutcomes(ref, r_loc) :
           /\ m_pc' = o.pc /\ ref' = o.ref /\ r_loc' = o.loc
           /\ part' = [part EXCEPT !.notes = o.ref.notes]
    /\ UNCHANGED <<outsidePart, scene, m_call, m_chords, sk>>

\* lines 421-434: after the loop
EndOutcomes(rf, loc) ==
    IF ~loc.end_tonic THEN {Outcome("refined", rf, loc)}
    ELSE IF rf.notes = <<>> THEN {Outcome("IndexError", rf, loc)}
    ELSE IF rf.kind = "chord" THEN {Outcome("TypeError", rf, loc)}
    ELSE IF (Last(rf.notes) - 1) % 7 = 0 THEN {Outcome("refined", rf, loc)}
    ELSE IF rf.rhythms = <<>> THEN {Outcome("IndexError", rf, loc)}
    ELSE LET r == Last(rf.rhythms)
             got == BreaksGet(r)
             tonic == NearestTonic(Last(rf.notes))
         IN  IF r \in Rests
             THEN {Outcome("refined",
                           [rf EXCEPT !.rhythms = Append(Front(@), RestToNote(r)),
                                      !.notes = Append(@, tonic)], loc)}
             ELSE IF got.status # "ok" THEN {Outcome(got.status, rf, loc)}
             ELSE {Outcome("refined",
                           [rf EXCEPT !.rhythms = Front(@) \o pair,
                                      !.notes = Append(@, tonic)], loc) :
                       pair \in got.outs}

RefineEnd ==
    /\ scene = "part" /\ m_pc = "refine"
    /\ ~InLoop(ref, r_loc)
    /\ \E o \in EndOutcomes(ref, r_loc) :
           /\ m_pc' = o.pc /\ ref' = o.ref /\ r_loc' = o.loc
           /\ part' = [part EXCEPT !.notes = o.ref.notes]
    /\ UNCHANGED <<outsidePart, scene, m_call, m_chords, sk>>

(***************************************************************************)
(* Properties of Chord                                                     *)
(***************************************************************************)
StrictlyAscending(s) == \A k \in 1 .. (Len(s) - 1) : s[k] < s[k + 1]
NoRepeat(s) == \A k, l \in 1 .. Len(s) : k # l => s[k] # s[l]
CircDist(a, b) ==
    IF (a - b) % 7 <= (b - a) % 7 THEN (a - b) % 7 ELSE (b - a) % 7
BassOf(ps, mn) == ClassAtOrAbove(ps[1], mn)

\* C1: whenever get_pitches returns for a range that contains the bass tone,
\* the returned list is strictly ascending and every element lies in
\* [min_pitch, max_pitch].
C1_GetPitchesAscendingInRange ==
    (g_pc = "done" /\ BassOf(c_pitches, g_args.min_pitch) <= g_args.max_pitch)
        => /\ StrictlyAscending(g_res)
           /\ \A k \in 1 .. Len(g_res) :
                  g_args.min_pitch <= g_res[k] /\ g_res[k] <= g_args.max_pitch

\* C2: nearest(p) is congruent mod 7 to a member of the chord, no member is
\* circularly closer to p, the result is within 3 scale degrees of p, and
\* nearest(nearest(p)) = nearest(p).
C2_NearestMemberMinimalIdempotent ==
    c_call.op = "nearest" =>
        LET p == c_call.arg
            q == c_call.ret
        IN  /\ \E k \in 1 .. Len(c_pitches) : (q - c_pitches[k]) % 7 = 0
            /\ \A k \in 1 .. Len(c_pitches) : CircDist(q, p) <= CircDist(c_pitches[k], p)
            /\ Abs(q - p) <= 3
            /\ Nearest(c_pitches, q) = q

\* C2's case: a pitch below the root's class by more than half an octave,
\* where nearest wraps upwards by 3
C2_Witness ==
    /\ c_call.op = "nearest"
    /\ c_call.ret = c_call.arg + 3
    /\ Len(c_pitches) = 1

\* C3: a chord equals the chord built from the same pitches k octaves away and
\* hashes the same; and any two equal chords hash the same.
C3_EqualChordsHashEqual ==
    /\ c_call.op = "shifted" => (c_call.eq /\ c_call.arg = c_call.ret)
    /\ (c_call.op \in {"compare", "shifted"} /\ c_call.eq) => c_call.arg = c_call.ret

\* C3's case: an equal chord in another octave
C3_Witness ==
    /\ c_call.op = "shifted"
    /\ c_call.other # c_pitches
    /\ Len(c_pitches) = 3
    /\ c_call.eq

\* C4: the constructed pitch list starts at the least input pitch, stays
\* within the octave above it, is ordered by offset from the root, and holds
\* no pitch value twice.
C4_ChordNormalizedDeduplicated ==
    c_pitches # <<>> =>
        /\ c_pitches[1] = SetMin(c_input)
        /\ \A k \in 1 .. Len(c_pitches) :
               0 <= c_pitches[k] - c_pitches[1] /\ c_pitches[k] - c_pitches[1] < 7
        /\ \A k \in 1 .. (Len(c_pitches) - 1) :
               (c_pitches[k] - c_pitches[1]) % 7 <= (c_pitches[k + 1] - c_pitches[1]) % 7
        /\ NoRepeat(c_pitches)

(***************************************************************************)
(* Properties of Biases                                                    *)
(***************************************************************************)
\* the weight recorded for (cond, o), 0 when none is
WeightOf(biases, o, cond) ==
    IF Len(cond) = 0 \/ Len(cond) > Len(biases) THEN 0
    ELSE LET cnd == IF Len(cond) > 1 THEN cond ELSE cond[1]
         IN  IF HasBias(biases[Len(cond)], cnd, o) THEN biases[Len(cond)][cnd][o] ELSE 0

IsRecorded(biases, o, cond) ==
    /\ Len(cond) >= 1 /\ Len(cond) <= Len(biases)
    /\ HasBias(biases[Len(cond)], IF Len(cond) > 1 THEN cond ELSE cond[1], o)

\* C9: add_bias(o, w, *h) with a non-empty history succeeds, afterwards
\* get_bias(o, *h) returns w and every other recorded weight is unchanged;
\* get_bias of an unrecorded pair returns the supplied default.
C9_AddBiasThenGetBias ==
    /\ (b_call.op = "add_bias" /\ Len(b_call.hist) >= 1) =>
           /\ b_call.status = "ok"
           /\ GetBias(b_self, b_call.o, b_call.hist, 0) = [status |-> "ok", ret |-> b_call.w]
           /\ \A o \in Elems(b_kind), h \in Histories(b_kind) :
                  (<<o, h>> # <<b_call.o, b_call.hist>> /\ IsRecorded(b_call.pre, o, h))
                      => WeightOf(b_self, o, h) = WeightOf(b_call.pre, o, h)
    /\ (b_call.op = "get_bias" /\ Len(b_call.hist) >= 1
            /\ ~IsRecorded(b_self, b_call.o, b_call.hist)) =>
           (b_call.status = "ok" /\ b_call.ret = b_call.default)

\* C10: a + b yields a sampler in which every (order, history, outcome) triple
\* recorded in either operand has the sum of the two weights, and no other
\* triple is recorded.
C10_AddMergesWeights ==
    (b_call.op = "add" /\ b_call.status # "running") =>
        /\ b_call.status = "ok"
        /\ ~b_call.none
        /\ \A o \in Elems(b_kind), h \in Histories(b_kind) :
               /\ WeightOf(b_self, o, h)
                      = WeightOf(b_call.pre, o, h) + WeightOf(b_other, o, h)
               /\ IsRecorded(b_self, o, h)
                      <=> (IsRecorded(b_call.pre, o, h) \/ IsRecorded(b_other, o, h))

\* the row of the sampler that the last n elements of hist select, if any
SuffixRows(biases, hist, n) ==
    IF n > Len(biases) \/ n > Len(hist) THEN {}
    ELSE LET key == IF n = 1 THEN Last(hist)
                    ELSE SubSeq(hist, Len(hist) - n + 1, Len(hist))
         IN  IF HasRow(biases[n], key) THEN {biases[n][key]} ELSE {}

\* C11: an outcome returned by get has a positive weight in a row that a
\* suffix of the history selects; and when the row of X holds one outcome A
\* only and no table of a longer history has a row, get(X) returns A
C11_GetReturnsWeightedOutcome ==
    b_call.op = "get" =>
        /\ b_call.status = "ok" =>
               \E n \in 1 .. Len(b_call.hist) :
                   \E row \in SuffixRows(b_self, b_call.hist, n) :
                       b_call.ret \in DOMAIN row /\ row[b_call.ret] > 0
        /\ \A a \in Elems(b_kind) :
               (/\ Len(b_call.hist) = 1
                /\ SuffixRows(b_self, b_call.hist, 1) # {}
                /\ \A row \in SuffixRows(b_self, b_call.hist, 1) :
                       DOMAIN row = {a} /\ row[a] > 0
                /\ \A ix \in 2 .. Len(b_self) : DOMAIN b_self[ix] = {})
               => b_call.status = "ok" /\ b_call.ret = a

\* C11's case: add_bias has set the weight of the one outcome y recorded for
\* x and has added an empty table for longer histories; get("x") returned y
C11_Witness ==
    /\ b_kind = "str"
    /\ b_call.op = "get" /\ b_call.status = "ok" /\ b_call.hist = <<"x">>
    /\ Len(b_self) > 1 /\ HasRow(b_self[1], "x")
    /\ DOMAIN b_self[1]["x"] = {"y"} /\ b_self[1]["x"]["y"] = MaxWeight
    /\ b_call.ret = "y"

(***************************************************************************)
(* Properties of Progression.from_biases                                   *)
(***************************************************************************)
\* C5: whenever from_biases returns, the chord list has at least min_len
\* chords, its last len(force_end) chords equal force_end, and its first
\* len(first) chords are the seed chords unchanged.
C5_FromBiasesResult ==
    p_pc = "done" =>
        /\ Len(p_res) >= p_args.min_len
        /\ Len(p_res) >= Len(p_args.force_end)
        /\ ChordListEq(SubSeq(p_res, Len(p_res) - Len(p_args.force_end) + 1, Len(p_res)),
                       p_args.force_end)
        /\ Len(p_res) >= Len(p_args.first)
        /\ SubSeq(p_res, 1, Len(p_args.first)) = p_args.first

\* C5's case: first=[I], force_end=[V, I], min_len=4 returns exactly 4 chords
C5_Witness ==
    /\ p_pc = "done"
    /\ p_args = [first |-> <<ChI>>, force_end |-> <<ChV, ChI>>, min_len |-> 4]
    /\ Len(p_res) = 4

(***************************************************************************)
(* Properties of Part.refine and of the Part producers                     *)
(***************************************************************************)
\* C6: the step in which refine(end_tonic=True) returns leaves a final pitch
\* p with (p - 1) % 7 = 0, and when that step appended a pitch, the pitch is
\* a tonic at most 3 scale degrees from the previous final pitch and no
\* tonic is nearer to it
C6_RefineEndsOnTonic ==
    [][(m_pc = "refine" /\ m_pc' = "refined" /\ r_loc.end_tonic) =>
           /\ ref'.kind = "pitch" /\ ref'.notes # <<>>
           /\ (Last(ref'.notes) - 1) % 7 = 0
           /\ ref'.notes # ref.notes =>
                  /\ Front(ref'.notes) = ref.notes
                  /\ Abs(Last(ref'.notes) - Last(ref.notes)) <= 3
                  /\ \A u \in (Last(ref.notes) - 7) .. (Last(ref.notes) + 7) :
                         (u - 1) % 7 = 0 =>
                             Abs(u - Last(ref.notes))
                                 >= Abs(Last(ref'.notes) - Last(ref.notes))]_vars

\* C6's case: the line [5] on a quarter note gets the tonic above appended
C6_Witness ==
    /\ m_pc = "refined" /\ r_loc.end_tonic
    /\ ref.notes = <<5, 8>> /\ ref.rhythms = <<"e", "e">>

\* C7: at every point of refine, and in the Part it returns, the rhythm of ref
\* lasts as long as the receiver's rhythm
C7_RefinePreservesDuration ==
    m_pc \in {"refine", "refined"} => Duration(ref.rhythms) = Duration(part.rhythms)

\* C7's case: a line of BREAKS keys and rests ending on a rest, returned with
\* tokens split and the final rest turned into a note
C7_Witness ==
    /\ m_pc = "refined" /\ part.rhythms # <<>>
    /\ \A k \in 1 .. Len(part.rhythms) :
           part.rhythms[k] \in Rests \/ HasRow(BREAKS[1], part.rhythms[k])
    /\ Last(part.rhythms) \in Rests /\ Last(ref.rhythms) \notin Rests
    /\ Len(ref.rhythms) > Len(part.rhythms)

\* C8: a Part returned by skeleton, chord_background or get_voice, also after
\* extend, has as many notes as non-rest rhythm tokens, and so has ref at
\* every point of refine and when refine returns it
C8_CountInvariant ==
    /\ m_pc = "made" => CountNotes(part.rhythms) = Len(part.notes)
    /\ m_pc \in {"refine", "refined"} => CountNotes(ref.rhythms) = Len(ref.notes)

\* C8's case: a Part built from a progression, refined with an insertion and
\* with the closing tonic put on a final rest
C8_Witness ==
    /\ m_pc = "refined" /\ m_chords # <<>> /\ r_loc.end_tonic
    /\ part.rhythms # <<>>
    /\ Last(part.rhythms) \in Rests /\ Last(ref.rhythms) \notin Rests
    /\ Len(ref.rhythms) > Len(part.rhythms)

\* C12: refine returns no Part for a receiver with fewer than 2 notes.  The
\* receiver's rhythm string is never written, so its played tokens count the
\* notes the receiver had when refine was called
C12_RefineRejectsShortLines ==
    m_pc = "refined" => CountNotes(part.rhythms) >= 2

\* the patterns get_voice assigns to the first n chords, one after the other
RECURSIVE AssignedDuration(_, _)
AssignedDuration(n, ryths) ==
    IF n = 0 THEN 0
    ELSE Duration(ryths[((n - 1) % Len(ryths)) + 1]) + AssignedDuration(n - 1, ryths)

\* C13: the Part returned by get_voice lasts as long as the patterns assigned
\* to its chords, whether or not a chord has a tone at index voice
C13_GetVoiceKeepsDuration ==
    (m_pc = "made" /\ m_call.op = "get_voice") =>
        Duration(part.rhythms) = AssignedDuration(Len(m_chords), m_call.rhythm)

\* C14: every pitch of the Part returned by skeleton lies in
\* [min_pitch, max_pitch]
C14_SkeletonInRange ==
    (m_pc = "made" /\ m_call.op = "skeleton") =>
        \A k \in 1 .. Len(part.notes) :
            m_call.min_pitch <= part.notes[k] /\ part.notes[k] <= m_call.max_pitch

\* C15: when refine returns, the receiver still has the rhythm string it had
\* (it is never written) and as many notes as that string has played tokens,
\* as it had when refine was called
C15_RefineLeavesReceiver ==
    m_pc = "refined" => CountNotes(part.rhythms) = Len(part.notes)

\* the yielded rhythm strings, and the yielded note lists, put end to end
RECURSIVE JoinedRyth(_)
JoinedRyth(ms) == IF ms = <<>> THEN <<>> ELSE ms[1].ryth \o JoinedRyth(Tail(ms))
RECURSIVE JoinedNotes(_)
JoinedNotes(ms) == IF ms = <<>> THEN <<>> ELSE ms[1].notes \o JoinedNotes(Tail(ms))

\* C16: the measures yielded by measures(meter), put end to end, are the
\* Part's whole rhythm string and its whole note list, and every yielded
\* measure lasts at least meter beats
C16_MeasuresPartition ==
    (m_call.op = "measures" /\ m_call.status = "ok") =>
        /\ JoinedRyth(m_call.yielded) = part.rhythms
        /\ JoinedNotes(m_call.yielded) = part.notes
        /\ \A k \in 1 .. Len(m_call.yielded) :
               Duration(m_call.yielded[k].ryth) >= m_call.meter * 24

\* C17: in skeleton the history handed to the interval sampler is the
\* initial 0 followed by one drawn interval for each note played so far
C17_IntervalHistoryGrows ==
    m_pc = "skel" => Len(sk.intervals) = Len(sk.notes) + 1

\* C18: a pass of refine's loop that classifies a repeat leaves leaps = 0,
\* and a pass that classifies a step or a leap leaves reps = 0
C18_CountersReset ==
    [][(/\ m_pc = "refine" /\ m_pc' = "refine"
        /\ InLoop(ref, r_loc)
        /\ ref.rhythms[r_loc.i + 1] \notin Rests) =>
           IF ref.notes[r_loc.note_num + 1] = ref.notes[r_loc.note_num + 2]
           THEN r_loc'.leaps = 0
           ELSE r_loc'.reps = 0]_vars

\* C19: a pass of refine's loop that inserts a tone between a and b moves the
\* scan past the inserted token and its tone, so that the next transition
\* classified starts at b
C19_ScanSkipsInsertedTone ==
    [][(/\ m_pc = "refine" /\ m_pc' = "refine"
        /\ Len(ref'.notes) = Len(ref.notes) + 1) =>
           /\ r_loc'.i = r_loc.i + 2
           /\ r_loc'.note_num = r_loc.note_num + 2]_vars

\* C20: in skeleton with the default CHD_LEN and RYTH tables and meter 4 the
\* beats remaining in a chord stay in 0 .. 4 and every drawn chord length is
\* 4; while beats remain the row of RYTH is found and every token it offers is
\* longer than nothing and no longer than what remains, so the remainder
\* falls to exactly 0 and the loop of the chord ends; the tokens drawn so far
\* and the remainder fill the chords begun, no draw raises, and the Part
\* returned lasts 4 beats for each chord
C20_SkeletonFillsChords ==
    /\ m_call.op = "skeleton" => m_pc \in {"skel", "made"}
    /\ m_pc = "skel" =>
           /\ sk.meter = 4
           /\ sk.rem \in 0 .. (4 * 24)
           /\ \A k \in 1 .. Len(sk.chd_lens) : sk.chd_lens[k] = 4
           /\ Len(sk.chd_lens) = sk.k
           /\ Duration(sk.ryth) + sk.rem = 4 * 24 * sk.k
           /\ sk.rem # 0 =>
                  LET got == GetByBeats(RYTH, sk.rem)
                  IN  /\ got.status = "ok"
                      /\ \A r \in got.outs : 0 < NoteLen(r) /\ NoteLen(r) <= sk.rem
    /\ (m_pc = "made" /\ m_call.op = "skeleton") =>
           Duration(part.rhythms) = 4 * 24 * Len(m_chords)

\* skeleton returned a line of three tokens over two chords
C20_Witness ==
    /\ m_pc = "made" /\ m_call.op = "skeleton"
    /\ Len(m_chords) = 2 /\ Len(part.rhythms) = 3
    /\ Duration(part.rhythms) = 2 * 4 * 24

(***************************************************************************)
(* Properties of termination                                               *)
(***************************************************************************)
\* C21: in get_pitches every iteration of the ascending fill loop that
\* appends a pitch leaves a last pitch strictly above the last pitch before
\* it, and every iteration of the descending fill loop that prepends a pitch
\* leaves a first pitch strictly below the first pitch before it, for every
\* chord, range and repeat_mode; this is what makes both loops end
C21_FillLoopsProgress ==
    [][/\ (g_pc = "asc" /\ g_pc' = "asc" /\ Len(g_res') = Len(g_res) + 1) =>
              Last(g_res') > Last(g_res)
       /\ (g_pc = "desc" /\ g_pc' = "desc" /\ Len(g_res') = Len(g_res) + 1) =>
              g_res'[1] < g_res[1]]_vars

\* C22: with the default aux_func the counter reps of refine is at most 5 in
\* every state of the loop and of the return, for every line and every
\* random outcome: aux_func is called with 0 .. 5 only and the division by
\* zero at 6 does not happen
C22_RepsAtMostFive ==
    /\ m_pc \in {"refine", "refined"} => r_loc.reps \in 0 .. 5
    /\ m_pc # "ZeroDivisionError"

\* aux_func is about to be called with 5
C22_Witness ==
    /\ m_pc = "refine" /\ r_loc.reps = 5 /\ InLoop(ref, r_loc)
    /\ ref.rhythms[r_loc.i + 1] \notin Rests
    /\ ref.notes[r_loc.note_num + 1] = ref.notes[r_loc.note_num + 2]

\* every token of the rhythm is a rest or has a row in BREAKS
LineTokensOK(ryths) ==
    \A k \in 1 .. Len(ryths) : ryths[k] \in Rests \/ BreaksGet(ryths[k]).status = "ok"

\* the number of leading elements of s that differ from b
LeadingOthers(s, b) ==
    IF \E k \in 1 .. Len(s) : s[k] = b
    THEN (CHOOSE k \in 1 .. Len(s) : s[k] = b /\ \A l \in 1 .. (k - 1) : s[l] # b) - 1
    ELSE Len(s)

\* max(|a - b| - 1, 1)
MaxInserted(a, b) == IF Abs(a - b) - 1 > 1 THEN Abs(a - b) - 1 ELSE 1

\* cur is inp with at most MaxInserted(a, b) tones put between each two
\* consecutive notes a, b of inp, none of them equal to b
RECURSIVE GapsWithin(_, _)
GapsWithin(cur, inp) ==
    IF inp = <<>> THEN cur = <<>>
    ELSE IF cur = <<>> THEN FALSE
    ELSE IF cur[1] # inp[1] THEN FALSE
    ELSE IF Len(inp) = 1 THEN Len(cur) = 1
    ELSE LET gap == LeadingOthers(Tail(cur), inp[2])
         IN  /\ gap <= MaxInserted(inp[1], inp[2])
             /\ GapsWithin(SubSeq(cur, gap + 2, Len(cur)), Tail(inp))

\* the tones that can still be inserted after the note at position k
RECURSIVE TonesLeft(_, _)
TonesLeft(notes, k) ==
    IF k >= Len(notes) THEN 0
    ELSE LET d == Abs(notes[k] - notes[k + 1])
         IN  (IF d = 0 THEN 1 ELSE d - 1) + TonesLeft(notes, k + 1)

\* the tokens not yet scanned and the tones that can still be inserted
RefineMeasure(rf, loc) ==
    (Len(rf.rhythms) - loc.i) + TonesLeft(rf.notes, loc.note_num + 1)

\* refine was called on a line of pitches whose tokens are rests or keys of
\* BREAKS, and has not left its loop
RefineScanning ==
    /\ m_pc = "refine" /\ m_call.line.kind = "pitch"
    /\ LineTokensOK(m_call.line.rhythms)

\* C23: refine called on a finite line of pitches whose tokens are rests or
\* keys of BREAKS ends for every random outcome, although the rhythm it scans
\* grows: every token put in by a split is a key of BREAKS again, the tones
\* between two consecutive notes a, b of the line it was called on are at
\* most max(|a - b| - 1, 1), and every pass of the loop that stays in the loop
\* lowers the count of tokens left to scan plus tones that can still be
\* inserted, which is never negative; a call in its loop leaves it
C23_RefineTerminates ==
    /\ [](RefineScanning =>
             /\ LineTokensOK(ref.rhythms)
             /\ GapsWithin(ref.notes, m_call.line.notes)
             /\ RefineMeasure(ref, r_loc) >= 0)
    /\ [][(RefineScanning /\ m_pc' = "refine") =>
             RefineMeasure(ref', r_loc') < RefineMeasure(ref, r_loc)]_vars
    /\ (m_pc = "refine") ~> (m_pc # "refine")

\* three tones stand between two notes of the line refine was called on, and
\* the rhythm has grown by three tokens
C23_Witness ==
    /\ RefineScanning
    /\ Len(ref.notes) = Len(m_call.line.notes) + 3
    /\ Len(ref.rhythms) = Len(m_call.line.rhythms) + 3
    /\ \E k \in 1 .. (Len(ref.notes) - 4) :
           /\ ref.notes[k] = 1 /\ ref.notes[k + 4] = 5
           /\ \A j \in 1 .. 3 : ref.notes[k + j] = 1 + j

\* from_biases was called with first=[I], force_end=[V, I], min_len=4 and the
\* default table
CadenceCall ==
    /\ p_pc # "idle"
    /\ p_args = [first |-> <<ChI>>, force_end |-> <<ChV, ChI>>, min_len |-> 4]

\* the draws looked ahead for the exit; the farthest chord is III, four draws
\* away: III, VI, II, V, I
CadenceDraws == 4

\* some n or fewer draws of the sampler after res make the loop exit
RECURSIVE CanFinish(_, _, _, _)
CanFinish(res, force_end, min_len, n) ==
    IF n = 0 THEN FALSE
    ELSE LET got == BiasesGet(PROGRESSION, "chord", res)
         IN  /\ got.status = "ok"
             /\ \E c \in got.outs :
                    \/ FBExit(Append(res, c), force_end, min_len)
                    \/ CanFinish(Append(res, c), force_end, min_len, n - 1)

\* C24: with the default PROGRESSION table, first=[I], force_end=[V, I] and
\* min_len=4 the call raises nothing; in every state of the loop the last
\* chord has a row that offers a successor (no dead end), and some
\* CadenceDraws or fewer draws from there end the list in V, I with at least
\* min_len chords: the exit stays within reach of every chord drawn, which is
\* what makes a fair choice among the successors end the loop
C24_CadenceReachable ==
    CadenceCall =>
        /\ p_pc \in {"loop", "done"}
        /\ p_pc = "loop" =>
               /\ BiasesGet(PROGRESSION, "chord", p_res).status = "ok"
               /\ BiasesGet(PROGRESSION, "chord", p_res).outs # {}
               /\ CanFinish(p_res, p_args.force_end, p_args.min_len, CadenceDraws)

\* the call returned after passing through III, the chord farthest from the
\* cadence
C24_Witness ==
    /\ CadenceCall /\ p_pc = "done"
    /\ p_res = <<ChI, ChIII, ChVI, ChII, ChV, ChI>>

(***************************************************************************)
(* Specifications                                                          *)
(***************************************************************************)
InitChord == scene = "chord" /\ ChordInitState /\ BiasParked /\ ProgIdle /\ PartIdle

NextChord ==
    \/ Construct
    \/ CallNearest
    \/ CallCompare
    \/ CallCompareShifted
    \/ CallGetPitches
    \/ GPAscIter
    \/ GPAscExit
    \/ GPPop
    \/ GPDesc
    \/ Return

InitBiases ==
    /\ scene = "biases" /\ ChordInitState
    /\ b_kind \in {"int", "str"}
    /\ b_self \in {BiasesInit(d) : d \in TableInputs(b_kind)}
    /\ BiasIdle
    /\ ProgIdle
    /\ PartIdle

NextBiases ==
    \/ CallAddBias
    \/ CallGetBias
    \/ CallGet
    \/ AddStart
    \/ AddStep
    \/ AddFinish
    \/ BiasReturn

InitProgression == scene = "progression" /\ ChordInitState /\ BiasParked /\ ProgIdle /\ PartIdle

NextProgression ==
    \/ FBCall
    \/ FBIter
    \/ FBReturn

InitPart ==
    /\ scene = "part" /\ ChordInitState /\ BiasParked /\ ProgIdle
    /\ PartIdle

NextPart ==
    \/ PartNew
    \/ SkelCall
    \/ SkelChord
    \/ SkelToken
    \/ SkelReturn
    \/ ChordBackground
    \/ GetVoice
    \/ Extend
    \/ CallMeasures
    \/ RefineCall
    \/ RefineIter
    \/ RefineEnd


SpecChord == InitChord /\ [][NextChord]_vars
SpecBiases == InitBiases /\ [][NextBiases]_vars
SpecProgression == InitProgression /\ [][NextProgression]_vars

SpecPart == InitPart /\ [][NextPart]_vars

\* the interpreter goes on running a call of refine until it returns or raises
SpecPartFair == SpecPart /\ WF_vars(RefineIter) /\ WF_vars(RefineEnd)

====
